---- MODULE Spec2Model ----
(***************************************************************************)
(* Model of the Lou Vou catalog API (src/main.py): the product search      *)
(* handler list_products, the rule-based stylist handler ai_stylist and the *)
(* product creation handler create_product, over a product collection kept *)
(* in insertion order by the document store.                               *)
(*                                                                         *)
(* Python values are modelled as follows.                                  *)
(*   str            a sequence of one-character strings, "" is << >>       *)
(*   Optional[T]    None is << >>, a present value v is << v >>            *)
(*   dict           a function whose domain is the set of its keys         *)
(*   list           a sequence                                             *)
(***************************************************************************)
EXTENDS Integers, Sequences, FiniteSets, TLC

VARIABLES
    catalog,   \* the "product" collection of the store, in insertion order
    pc,        \* "idle", or the endpoint whose response is in flight
    req,       \* the request being answered (raw, as sent by the client)
    filt,      \* the handler's local filt: the query it composed
    resp,      \* the response in flight
    log        \* history of composed queries (auxiliary, SpecLog only)

vars == <<catalog, pc, req, filt, resp, log>>

(***************************************************************************)
(* Bounds of the model.                                                    *)
(***************************************************************************)
MaxCatalog == 2
MaxCapCatalog == 14
MaxLog == 3

(***************************************************************************)
(* Program constants.                                                      *)
(***************************************************************************)
DefaultLimit == 24
MinLimit == 1
MaxLimit == 100

\* Mutant: the stylist uses the product search's default limit.
StylistLimitAsSearch == DefaultLimit

StylistLimit == 12

(***************************************************************************)
(* Python values.                                                          *)
(***************************************************************************)
None == << >>

Some(v) == << v >>

\* bool(x) of an Optional[str]: None and "" are falsy.
Truthy(o) == o # None /\ o[1] # << >>

\* dict item assignment d[k] = v (an existing key is overwritten).
Put(d, k, v) == (k :> v) @@ d

EmptyDict == << >>

LowerChar(c) ==
    CASE c = "A" -> "a"
      [] c = "B" -> "b"
      [] OTHER -> c

\* str.lower()
Lower(s) == [i \in 1..Len(s) |-> LowerChar(s[i])]

Min(a, b) == IF a <= b THEN a ELSE b

\* The elements of a sequence, as a set.
Range(s) == {s[i] : i \in 1..Len(s)}

\* seq[:n]
Take(s, n) == SubSeq(s, 1, Min(n, Len(s)))

(***************************************************************************)
(* The store.                                                              *)
(***************************************************************************)
ObjectId(n) == [oid |-> n]

\* str(ObjectId): the identifier's display string.
StrId(id) == [hex |-> id.oid]

\* One regular-expression atom of the pattern against one character of the
\* text: "." matches any character, any other atom matches itself; with
\* option i letters match regardless of case.
AtomMatches(p, c, options) ==
    \/ p = "."
    \/ IF "i" \in Range(options) THEN LowerChar(p) = LowerChar(c) ELSE p = c

\* {field: {"$regex": pattern, "$options": options}} on a string value: the
\* pattern is unanchored, so it matches when it matches at some offset.
RegexSearch(pattern, options, text) ==
    \E off \in 0..(Len(text) - Len(pattern)) :
        \A j \in 1..Len(pattern) : AtomMatches(pattern[j], text[off + j], options)

\* {"$in": terms} or {"$all": terms} on an array field.
MatchTags(tags, cond) ==
    \A op \in DOMAIN cond :
        CASE op = "$in" -> \E i \in 1..Len(tags) : tags[i] \in Range(cond[op])
          [] op = "$all" -> \A t \in Range(cond[op]) : t \in Range(tags)

\* {"$gte": lo, "$lte": hi} on a number; a missing side is open.
MatchRange(value, cond) ==
    \A op \in DOMAIN cond :
        CASE op = "$gte" -> value >= cond[op]
          [] op = "$lte" -> value <= cond[op]

\* One clause of a "$or" list: a single field with a regex condition, the
\* tags clause wrapped in "$elemMatch". A null field matches no regex.
MatchClause(doc, clause) ==
    \A field \in DOMAIN clause :
        LET cond == clause[field] IN
        CASE field = "title" ->
                 RegexSearch(cond["$regex"], cond["$options"], doc.title)
          [] field = "description" ->
                 /\ doc.description # None
                 /\ RegexSearch(cond["$regex"], cond["$options"], doc.description[1])
          [] field = "tags" ->
                 \E i \in 1..Len(doc.tags) :
                     RegexSearch(cond["$elemMatch"]["$regex"],
                                 cond["$elemMatch"]["$options"], doc.tags[i])

\* Whether a document satisfies a query: every top-level key must hold.
Matches(doc, query) ==
    \A k \in DOMAIN query :
        CASE k = "gender" -> doc.gender = Some(query[k])
          [] k = "collection" -> doc.collection = Some(query[k])
          [] k = "price" -> MatchRange(doc.price, query[k])
          [] k = "tags" -> MatchTags(doc.tags, query[k])
          [] k = "$or" -> \E i \in 1..Len(query[k]) : MatchClause(doc, query[k][i])
          [] OTHER -> FALSE

\* The documents of the collection that satisfy the query, in store order.
Find(coll, query) == SelectSeq(coll, LAMBDA d : Matches(d, query))

\* get_documents(collection_name, filter_dict, limit): find(filter) cut to
\* limit documents.
get_documents(coll, query, limit) == Take(Find(coll, query), limit)

\* create_document(collection_name, data): insert, returning the new id.
create_document(coll, data) ==
    Append(coll, Put(data, "_id", ObjectId(Len(coll) + 1)))

\* for d in docs: d["_id"] = str(d.get("_id"))
StrIds(docs) == [i \in 1..Len(docs) |-> [docs[i] EXCEPT !["_id"] = StrId(@)]]

(***************************************************************************)
(* GET /api/products                                                       *)
(***************************************************************************)
\* limit: Optional[int] = Query(24, ge=1, le=100); a value outside the range
\* is refused by the framework before the handler runs.
ValidLimit(limit) ==
    limit = None \/ (MinLimit <= limit[1] /\ limit[1] <= MaxLimit)

EffectiveLimit(limit) == IF limit = None THEN DefaultLimit ELSE limit[1]

\* Mutant: one dict shared by all calls (a module-level or default-argument
\* dict), so a call starts from the query the previous call left.
NewFiltStale == IF log = << >> THEN EmptyDict ELSE log[Len(log)].filt

\* filt = {}
NewFilt == EmptyDict

\* Mutant: "if gender is not None" in place of "if gender".
GenderPredNotNone(f, gender) ==
    IF gender # None THEN Put(f, "gender", gender[1]) ELSE f

\* if gender: filt["gender"] = gender
GenderPred(f, gender) ==
    IF Truthy(gender) THEN Put(f, "gender", gender[1]) ELSE f

\* if collection: filt["collection"] = collection
CollectionPred(f, collection) ==
    IF Truthy(collection) THEN Put(f, "collection", collection[1]) ELSE f

\* Mutant: the two operators swapped.
PriceCondSwapped(min_price, max_price) ==
    LET c0 == EmptyDict
        c1 == IF min_price # None THEN Put(c0, "$lte", min_price[1]) ELSE c0
        c2 == IF max_price # None THEN Put(c1, "$gte", max_price[1]) ELSE c1
    IN  c2

\* price_cond = {}, then "$gte" and "$lte" for the bounds that are present
PriceCond(min_price, max_price) ==
    LET c0 == EmptyDict
        c1 == IF min_price # None THEN Put(c0, "$gte", min_price[1]) ELSE c0
        c2 == IF max_price # None THEN Put(c1, "$lte", max_price[1]) ELSE c1
    IN  c2

\* if min_price is not None or max_price is not None: filt["price"] = ...
PricePred(f, min_price, max_price) ==
    IF min_price # None \/ max_price # None
    THEN Put(f, "price", PriceCond(min_price, max_price))
    ELSE f

\* {"$regex": q, "$options": "i"}
Regex(q) == ("$regex" :> q) @@ ("$options" :> <<"i">>)

\* The three clauses of the free-text disjunction.
FreeTextClauses(q) ==
    << ("title" :> Regex(q)),
       ("description" :> Regex(q)),
       ("tags" :> ("$elemMatch" :> Regex(q))) >>

\* Mutant: "if q is not None" in place of "if q".
FreeTextPredNotNone(f, q) ==
    IF q # None THEN Put(f, "$or", FreeTextClauses(q[1])) ELSE f

\* if q: filt["$or"] = [...]
FreeTextPred(f, q) ==
    IF Truthy(q) THEN Put(f, "$or", FreeTextClauses(q[1])) ELSE f

\* The query list_products composes from its parameters. budget_max is not
\* a parameter of the handler: the framework drops it from the query string.
ProductFilt(query) ==
    LET f1 == GenderPred(NewFilt, query.gender)
        f2 == CollectionPred(f1, query.collection)
        f3 == PricePred(f2, query.min_price, query.max_price)
        f4 == FreeTextPred(f3, query.q)
    IN  f4

NoResp == [status |-> 0, body |-> << >>]

Unprocessable == [status |-> 422, body |-> << >>]

list_products(query) ==
    /\ pc = "idle"
    /\ pc' = "list_products"
    /\ req' = query
    /\ IF ValidLimit(query.limit)
       THEN LET f == ProductFilt(query)
                docs == get_documents(catalog, f, EffectiveLimit(query.limit))
            IN  /\ filt' = f
                /\ resp' = [status |-> 200, body |-> [items |-> StrIds(docs)]]
       ELSE /\ filt' = EmptyDict
            /\ resp' = Unprocessable
    /\ UNCHANGED catalog

(***************************************************************************)
(* POST /api/products                                                      *)
(***************************************************************************)
create_product(payload) ==
    /\ pc = "idle"
    /\ pc' = "create_product"
    /\ req' = payload
    /\ catalog' = create_document(catalog, payload)
    /\ filt' = EmptyDict
    /\ resp' = [status |-> 200, body |-> [id |-> StrId(ObjectId(Len(catalog) + 1))]]

(***************************************************************************)
(* POST /api/stylist                                                       *)
(***************************************************************************)
\* StylistRequest: occasion is the one required field (any str, "" too);
\* a field the model does not declare (max_price) is dropped.
ValidStylist(body) == body.occasion # None

StylistRequest(body) ==
    [occasion |-> body.occasion[1], gender |-> body.gender, vibe |-> body.vibe,
     weather |-> body.weather, budget_max |-> body.budget_max]

\* Mutant: the list starts empty, occasion is left out.
TagQueriesNoOccasion(r) ==
    LET t0 == << >>
        t1 == IF Truthy(r.vibe) THEN Append(t0, r.vibe[1]) ELSE t0
        t2 == IF Truthy(r.weather) THEN Append(t1, r.weather[1]) ELSE t1
    IN  t2

\* tag_queries = [req.occasion], plus vibe and weather when truthy
TagQueries(r) ==
    LET t0 == << r.occasion >>
        t1 == IF Truthy(r.vibe) THEN Append(t0, r.vibe[1]) ELSE t0
        t2 == IF Truthy(r.weather) THEN Append(t1, r.weather[1]) ELSE t1
    IN  t2

\* [t for t in tag_queries if t]
NonEmpty(terms) == SelectSeq(terms, LAMBDA t : t # << >>)

\* Mutant: the terms are passed on as typed.
LowerAllAsTyped(terms) == terms

\* [t.lower() for t in tag_queries]
LowerAll(terms) == [i \in 1..Len(terms) |-> Lower(terms[i])]

\* Mutant: "$all" in place of "$in".
TagsCondAll(terms) == ("$all" :> LowerAll(terms))

\* {"$in": [...]}
TagsCond(terms) == ("$in" :> LowerAll(terms))

\* if tag_queries: filt["tags"] = {"$in": ...}
TagsPred(f, terms) ==
    IF terms # << >> THEN Put(f, "tags", TagsCond(terms)) ELSE f

\* Mutant: "if req.budget_max" in place of "is not None": a budget of 0 is
\* taken for no budget.
BudgetPredTruthy(f, budget_max) ==
    IF budget_max # None /\ budget_max[1] # 0
    THEN Put(f, "price", ("$lte" :> budget_max[1]))
    ELSE f

\* if req.budget_max is not None: filt["price"] = {"$lte": req.budget_max}
BudgetPred(f, budget_max) ==
    IF budget_max # None THEN Put(f, "price", ("$lte" :> budget_max[1])) ELSE f

\* The query ai_stylist composes from the validated request.
StylistFilt(r) ==
    LET f1 == GenderPred(NewFilt, r.gender)
        f2 == TagsPred(f1, NonEmpty(TagQueries(r)))
        f3 == BudgetPred(f2, r.budget_max)
    IN  f3

Intro == "Refined selections tailored to your moment."

ai_stylist(body) ==
    /\ pc = "idle"
    /\ pc' = "ai_stylist"
    /\ req' = body
    /\ IF ValidStylist(body)
       THEN LET r == StylistRequest(body)
                f == StylistFilt(r)
                items == get_documents(catalog, f, StylistLimit)
            IN  /\ filt' = f
                /\ resp' = [status |-> 200,
                            body |-> [message |-> Intro, criteria |-> r,
                                      recommendations |-> StrIds(items)]]
       ELSE /\ filt' = EmptyDict
            /\ resp' = Unprocessable
    /\ UNCHANGED catalog

(***************************************************************************)
(* The response reaches the client; the handler's locals are gone.         *)
(***************************************************************************)
Return ==
    /\ pc # "idle"
    /\ pc' = "idle"
    /\ req' = None
    /\ filt' = EmptyDict
    /\ resp' = NoResp
    /\ UNCHANGED catalog

(***************************************************************************)
(* Inputs.                                                                 *)
(***************************************************************************)
Men == <<"m", "e", "n">>
Women == <<"w", "o", "m", "e", "n">>
Luxury == <<"l", "u", "x">>

Product(title, description, price, gender, collection, tags) ==
    [title |-> title, description |-> description, price |-> price,
     category |-> <<"c">>, gender |-> gender, collection |-> collection,
     images |-> << >>, tags |-> tags, in_stock |-> TRUE]

Palette ==
    { Product(<<"A", "b">>, Some(<<"a", " ", "b">>), 1, Some(Men), Some(Luxury), << <<"a">> >>),
      Product(<<"b">>, None, 2, Some(Women), None, << <<"b">>, <<"A">> >>),
      Product(<<"a">>, Some(<<"B", ".">>), 3, None, Some(Luxury), << >>) }

OptGender == {None, Some(<< >>), Some(Men)}
OptCollection == {None, Some(Luxury)}
OptMinPrice == {None, Some(0), Some(2)}
OptMaxPrice == {None, Some(1), Some(2)}
OptQ == {None, Some(<< >>), Some(<<" ">>), Some(<<"B">>), Some(<<".">>)}
OptLimit == {None, Some(0), Some(1), Some(101)}
OptBudget == {None, Some(0), Some(2)}

ProductQueries ==
    [gender : OptGender, collection : OptCollection, min_price : OptMinPrice,
     max_price : OptMaxPrice, q : OptQ, limit : OptLimit, budget_max : {None, Some(1)}]

StylistBodies ==
    [occasion : {None, Some(<< >>), Some(<<"A">>), Some(<<"a">>), Some(<<"b">>)},
     gender : OptGender,
     vibe : {None, Some(<< >>), Some(<<"a">>), Some(<<"B">>)},
     weather : {None, Some(<<"b">>), Some(<<"A">>)},
     budget_max : OptBudget, max_price : {None, Some(1)}]

CapPalette ==
    { Product(<<"a">>, None, 1, None, None, << <<"a">> >>),
      Product(<<"b">>, None, 3, None, None, << <<"b">> >>) }

CapBodies ==
    [occasion : {Some(<< >>), Some(<<"A">>)}, gender : {None}, vibe : {None},
     weather : {None}, budget_max : {None, Some(2)}, max_price : {None}]

LogQueries ==
    [gender : {None, Some(Men)}, collection : {None}, min_price : {None},
     max_price : {None, Some(1)}, q : {None, Some(<<"B">>)}, limit : {None},
     budget_max : {None}]

LogBodies ==
    [occasion : {Some(<< >>), Some(<<"A">>)}, gender : {None}, vibe : {None},
     weather : {None}, budget_max : {None, Some(2)}, max_price : {None}]

(***************************************************************************)
(* Spec: the three handlers over catalogs of up to MaxCatalog products.    *)
(***************************************************************************)
Init ==
    /\ catalog = << >>
    /\ pc = "idle"
    /\ req = None
    /\ filt = EmptyDict
    /\ resp = NoResp
    /\ log = << >>

Create ==
    /\ Len(catalog) < MaxCatalog
    /\ \E payload \in Palette : create_product(payload)
    /\ UNCHANGED log

Search == (\E query \in ProductQueries : list_products(query)) /\ UNCHANGED log

Recommend == (\E body \in StylistBodies : ai_stylist(body)) /\ UNCHANGED log

Done == Return /\ UNCHANGED log

Next == Create \/ Search \/ Recommend \/ Done

Spec == Init /\ [][Next]_vars

(***************************************************************************)
(* SpecCap: the stylist over catalogs long enough for more than            *)
(* StylistLimit products to match.                                         *)
(***************************************************************************)
CapCreate ==
    /\ Len(catalog) < MaxCapCatalog
    /\ \E payload \in CapPalette : create_product(payload)
    /\ UNCHANGED log

CapRecommend == (\E body \in CapBodies : ai_stylist(body)) /\ UNCHANGED log

CapNext == CapCreate \/ CapRecommend \/ Done

SpecCap == Init /\ [][CapNext]_vars

(***************************************************************************)
(* SpecLog: up to MaxLog calls in a row, each composed query recorded in   *)
(* the history variable log.                                               *)
(***************************************************************************)
Logged == log' = Append(log, [endpoint |-> pc', req |-> req', filt |-> filt'])

LogSearch ==
    /\ Len(log) < MaxLog
    /\ \E query \in LogQueries : list_products(query)
    /\ Logged

LogRecommend ==
    /\ Len(log) < MaxLog
    /\ \E body \in LogBodies : ai_stylist(body)
    /\ Logged

LogNext == LogSearch \/ LogRecommend \/ Done

SpecLog == Init /\ [][LogNext]_vars

(***************************************************************************)
(* Vocabulary of the properties.                                           *)
(***************************************************************************)
Answered(endpoint) == pc = endpoint /\ resp.status = 200

Keys(d) == DOMAIN d

\* The upper bounds on price a query carries.
UpperBounds(f) ==
    IF "price" \in Keys(f) /\ "$lte" \in Keys(f["price"])
    THEN {f["price"]["$lte"]}
    ELSE {}

\* A string that is empty once leading and trailing spaces are removed.
IsBlank(str) == \A i \in 1..Len(str) : str[i] = " "

\* text contains needle, letters compared regardless of case.
ContainsText(needle, text) ==
    \E off \in 0..(Len(text) - Len(needle)) :
        \A j \in 1..Len(needle) : LowerChar(needle[j]) = LowerChar(text[off + j])

\* seq without the later occurrences of a value it already holds.
Dedup(seq) ==
    LET D[i \in 0..Len(seq)] ==
            IF i = 0 THEN << >>
            ELSE IF seq[i] \in Range(D[i - 1]) THEN D[i - 1]
                 ELSE Append(D[i - 1], seq[i])
    IN  D[Len(seq)]

\* occasion, vibe and weather of a stylist request, those supplied, in order.
Supplied(body) ==
    << body.occasion[1] >>
        \o (IF body.vibe = None THEN << >> ELSE << body.vibe[1] >>)
        \o (IF body.weather = None THEN << >> ELSE << body.weather[1] >>)

\* The terms of the tags predicate of a query, whatever its operator.
TagTerms(f) == UNION {Range(f["tags"][op]) : op \in Keys(f["tags"])}

\* The items of a response with the identifiers as the store holds them.
Stored(items) == [i \in 1..Len(items) |-> [items[i] EXCEPT !["_id"] = ObjectId(@.hex)]]

(***************************************************************************)
(* C1                                                                      *)
(***************************************************************************)
\* C1 as stated: whenever a request carries both max_price = P1 and
\* budget_max = P2, the composed query bounds price from above by min(P1, P2).
C1_MinOfBoth ==
    ((Answered("list_products") \/ Answered("ai_stylist"))
        /\ req.max_price # None /\ req.budget_max # None)
    => UpperBounds(filt) = {Min(req.max_price[1], req.budget_max[1])}

\* C1 as amended: each endpoint bounds price from above by its own parameter
\* alone. Product search: by max_price when present, whatever budget_max the
\* request carries. Stylist: by budget_max when present, whatever max_price the
\* request carries. The query never holds a second price predicate.
C1_OwnUpperBound ==
    /\ Answered("list_products") =>
           UpperBounds(filt) = (IF req.max_price = None THEN {} ELSE {req.max_price[1]})
    /\ Answered("ai_stylist") =>
           UpperBounds(filt) = (IF req.budget_max = None THEN {} ELSE {req.budget_max[1]})
    /\ (Answered("list_products") \/ Answered("ai_stylist")) =>
           /\ Keys(filt) \subseteq {"gender", "collection", "price", "tags", "$or"}
           /\ "price" \in Keys(filt) => Keys(filt["price"]) \subseteq {"$gte", "$lte"}

\* Both bounds supplied and the budget the stricter one, yet the search is
\* bounded by max_price.
C1_Witness ==
    /\ Answered("list_products")
    /\ req.max_price = Some(2) /\ req.budget_max = Some(1)
    /\ UpperBounds(filt) = {2}

(***************************************************************************)
(* C2                                                                      *)
(***************************************************************************)
\* C2 as stated: the free-text disjunction is in the query exactly when q is
\* non-empty after trimming.
C2_NonBlank ==
    Answered("list_products") =>
        (("$or" \in Keys(filt)) <=> (req.q # None /\ ~IsBlank(req.q[1])))

\* C2 as amended: the free-text disjunction is in the query exactly when q is
\* present and not the empty string (q is not trimmed: a q of spaces only
\* emits it), and it is one list of three clauses on title, description and
\* the elements of tags, each with q as its pattern.
C2_NonEmpty ==
    Answered("list_products") =>
        /\ ("$or" \in Keys(filt)) <=> (req.q # None /\ req.q[1] # << >>)
        /\ "$or" \in Keys(filt) =>
               /\ Len(filt["$or"]) = 3
               /\ filt["$or"][1]["title"]["$regex"] = req.q[1]
               /\ filt["$or"][2]["description"]["$regex"] = req.q[1]
               /\ filt["$or"][3]["tags"]["$elemMatch"]["$regex"] = req.q[1]

C2_Witness ==
    /\ Answered("list_products")
    /\ req.q = Some(<<" ">>)
    /\ "$or" \in Keys(filt)
    /\ Len(resp.body.items) > 0

(***************************************************************************)
(* C3                                                                      *)
(***************************************************************************)
\* C3 as stated: the tag list is the supplied terms, empty ones dropped,
\* lower-cased and deduplicated in first-seen order; no predicate for an
\* empty list.
C3_Deduplicated ==
    Answered("ai_stylist") =>
        LET terms == Dedup(LowerAll(NonEmpty(Supplied(req)))) IN
        IF terms = << >> THEN "tags" \notin Keys(filt)
        ELSE "tags" \in Keys(filt) /\ filt["tags"]["$in"] = terms

\* C3 as amended: the tag list is the supplied terms in the order occasion,
\* vibe, weather, empty ones dropped, each lower-cased; a repeated term stays
\* repeated. No predicate for an empty list.
C3_LowerCasedInOrder ==
    Answered("ai_stylist") =>
        LET kept == SelectSeq(Supplied(req), LAMBDA t : Len(t) > 0) IN
        IF kept = << >> THEN "tags" \notin Keys(filt)
        ELSE /\ "tags" \in Keys(filt)
             /\ Keys(filt["tags"]) = {"$in"}
             /\ Len(filt["tags"]["$in"]) = Len(kept)
             /\ \A i \in 1..Len(kept) : filt["tags"]["$in"][i] = Lower(kept[i])

C3_Witness ==
    /\ Answered("ai_stylist")
    /\ req.occasion = Some(<<"A">>) /\ req.vibe = Some(<<"a">>) /\ req.weather = None
    /\ filt["tags"]["$in"] = << <<"a">>, <<"a">> >>

(***************************************************************************)
(* C4                                                                      *)
(***************************************************************************)
\* What the stylist's predicates ask of a product, read off the request.
Wanted(doc, body) ==
    LET terms == Range(LowerAll(NonEmpty(Supplied(body)))) IN
    /\ (body.gender = None \/ body.gender[1] = << >> \/ doc.gender = body.gender)
    /\ (terms = {} \/ Range(doc.tags) \cap terms # {})
    /\ (body.budget_max = None \/ doc.price <= body.budget_max[1])

\* C4: the recommendations are the first min(12, m) of the m products that
\* satisfy the gender, tags and budget predicates, in store order, never
\* more than 12.
C4_FirstTwelve ==
    Answered("ai_stylist") =>
        LET wanted == SelectSeq(catalog, LAMBDA d : Wanted(d, req))
            items == Stored(resp.body.recommendations)
        IN  /\ Len(items) <= 12
            /\ Len(items) = Min(12, Len(wanted))
            /\ \A i \in 1..Len(items) : items[i] = wanted[i]

\* Thirteen products match, behind one that does not, and twelve come back.
C4_Witness ==
    /\ Answered("ai_stylist")
    /\ req.occasion = Some(<<"A">>) /\ req.budget_max = Some(2)
    /\ Len(catalog) = 14
    /\ Len(SelectSeq(catalog, LAMBDA d : Wanted(d, req))) = 13
    /\ ~Wanted(catalog[1], req)
    /\ Len(resp.body.recommendations) = 12

(***************************************************************************)
(* C5                                                                      *)
(***************************************************************************)
\* C5 as stated: an accepted stylist request has a non-empty occasion, whose
\* lower-cased form is a term of the tags predicate.
C5_OccasionNonEmpty ==
    Answered("ai_stylist") =>
        /\ req.occasion[1] # << >>
        /\ "tags" \in Keys(filt)
        /\ Lower(req.occasion[1]) \in TagTerms(filt)

\* C5 as amended: a stylist request is accepted exactly when it carries an
\* occasion, the empty string included. A non-empty occasion is, lower-cased,
\* a term of the tags predicate; an empty one adds no term, and with no vibe
\* and no weather either the query has no tags predicate.
C5_OccasionRequired ==
    pc = "ai_stylist" =>
        /\ (resp.status = 200) <=> (req.occasion # None)
        /\ (resp.status = 200 /\ req.occasion[1] # << >>) =>
               /\ "tags" \in Keys(filt)
               /\ Lower(req.occasion[1]) \in TagTerms(filt)
        /\ (resp.status = 200 /\ req.occasion[1] = << >>
                /\ ~Truthy(req.vibe) /\ ~Truthy(req.weather)) =>
               "tags" \notin Keys(filt)

C5_Witness ==
    /\ Answered("ai_stylist")
    /\ req.occasion = Some(<< >>) /\ req.vibe = None /\ req.weather = None
    /\ "tags" \notin Keys(filt)
    /\ Len(resp.body.recommendations) = 2

(***************************************************************************)
(* C6                                                                      *)
(***************************************************************************)
\* C6: a product search with min_price and/or max_price composes one price
\* predicate holding exactly the bounds that are present, and every product
\* returned satisfies each of them.
C6_PriceRange ==
    Answered("list_products") =>
        LET lo == req.min_price
            hi == req.max_price
        IN  /\ ("price" \in Keys(filt)) <=> (lo # None \/ hi # None)
            /\ "price" \in Keys(filt) =>
                   /\ ("$gte" \in Keys(filt["price"])) <=> (lo # None)
                   /\ ("$lte" \in Keys(filt["price"])) <=> (hi # None)
                   /\ Keys(filt["price"]) \subseteq {"$gte", "$lte"}
                   /\ lo # None => filt["price"]["$gte"] = lo[1]
                   /\ hi # None => filt["price"]["$lte"] = hi[1]
            /\ \A i \in 1..Len(resp.body.items) :
                   /\ lo # None => resp.body.items[i].price >= lo[1]
                   /\ hi # None => resp.body.items[i].price <= hi[1]

\* A range with a lower bound only returns a product priced above every
\* upper bound the inputs offer.
C6_Witness ==
    /\ Answered("list_products")
    /\ req.min_price = Some(2) /\ req.max_price = None
    /\ Keys(filt["price"]) = {"$gte"}
    /\ \E i \in 1..Len(resp.body.items) : resp.body.items[i].price = 3

(***************************************************************************)
(* C7                                                                      *)
(***************************************************************************)
\* C7 as stated: free text narrows the search (what it returns, the same
\* search without q matches too), and every product returned contains q,
\* regardless of case, in its title, its description or one of its tags.
C7_ContainsText ==
    (Answered("list_products") /\ "$or" \in Keys(filt)) =>
        LET without == Find(catalog, ProductFilt([req EXCEPT !.q = None]))
            items == Stored(resp.body.items)
        IN  \A i \in 1..Len(items) :
                /\ items[i] \in Range(without)
                /\ \/ ContainsText(req.q[1], items[i].title)
                   \/ /\ items[i].description # None
                      /\ ContainsText(req.q[1], items[i].description[1])
                   \/ \E t \in 1..Len(items[i].tags) :
                          ContainsText(req.q[1], items[i].tags[t])

(***************************************************************************)
(* C8                                                                      *)
(***************************************************************************)
\* C8: the tags predicate of the stylist's query matches a product exactly
\* when one of the product's tags equals one of the terms; every product
\* recommended under a tags predicate has such a tag.
C8_AnyTagAnyTerm ==
    (Answered("ai_stylist") /\ "tags" \in Keys(filt)) =>
        LET tagsOnly == [k \in {"tags"} |-> filt[k]]
            items == resp.body.recommendations
        IN  /\ \A d \in Range(catalog) :
                   Matches(d, tagsOnly) <=> (Range(d.tags) \cap TagTerms(filt) # {})
            /\ \A i \in 1..Len(items) : Range(items[i].tags) \cap TagTerms(filt) # {}

\* Two terms, and a product carrying one of them only is recommended.
C8_Witness ==
    /\ Answered("ai_stylist")
    /\ "tags" \in Keys(filt)
    /\ TagTerms(filt) = {<<"a">>, <<"b">>}
    /\ \E i \in 1..Len(resp.body.recommendations) :
           Range(resp.body.recommendations[i].tags) \cap TagTerms(filt) = {<<"a">>}
    /\ \E d \in Range(catalog) : Range(d.tags) \cap TagTerms(filt) = {}

(***************************************************************************)
(* C9                                                                      *)
(***************************************************************************)
\* C9: a predicate is in the query only for a field whose source value is
\* present and non-empty; with every optional field absent or empty the query
\* is empty and the search returns the first min(limit, size) products of the
\* catalog in store order.
C9_NoFilterNoPredicate ==
    /\ Answered("list_products") =>
           /\ "gender" \in Keys(filt) => (req.gender # None /\ req.gender[1] # << >>)
           /\ "collection" \in Keys(filt) =>
                  (req.collection # None /\ req.collection[1] # << >>)
           /\ "price" \in Keys(filt) => (req.min_price # None \/ req.max_price # None)
           /\ "$or" \in Keys(filt) => (req.q # None /\ req.q[1] # << >>)
           /\ Keys(filt) \subseteq {"gender", "collection", "price", "$or"}
           /\ (/\ req.gender \in {None, Some(<< >>)}
               /\ req.collection \in {None, Some(<< >>)}
               /\ req.min_price = None /\ req.max_price = None
               /\ req.q \in {None, Some(<< >>)}) =>
                  /\ filt = << >>
                  /\ Stored(resp.body.items) =
                         SubSeq(catalog, 1,
                                Min(IF req.limit = None THEN 24 ELSE req.limit[1],
                                    Len(catalog)))
    /\ Answered("ai_stylist") =>
           /\ "gender" \in Keys(filt) => (req.gender # None /\ req.gender[1] # << >>)
           /\ "price" \in Keys(filt) => req.budget_max # None
           /\ "tags" \in Keys(filt) => (\E i \in 1..Len(Supplied(req)) :
                                            Supplied(req)[i] # << >>)
           /\ Keys(filt) \subseteq {"gender", "tags", "price"}

\* An empty gender and an empty q: no predicate, and a limit of 1 cuts a
\* catalog of two to its first product.
C9_Witness ==
    /\ Answered("list_products")
    /\ req.gender = Some(<< >>) /\ req.collection = None /\ req.q = Some(<< >>)
    /\ req.min_price = None /\ req.max_price = None
    /\ req.limit = Some(1)
    /\ Len(catalog) = 2
    /\ filt = << >>
    /\ Len(resp.body.items) = 1

(***************************************************************************)
(* C10                                                                     *)
(***************************************************************************)
\* A query with at most one predicate per field and at most one free-text
\* disjunction.
OnePerField(f) ==
    /\ Keys(f) \subseteq {"gender", "collection", "price", "tags", "$or"}
    /\ "price" \in Keys(f) => Keys(f["price"]) \subseteq {"$gte", "$lte"}
    /\ "tags" \in Keys(f) => Keys(f["tags"]) = {"$in"}
    /\ "$or" \in Keys(f) =>
           /\ Len(f["$or"]) = 3
           /\ Keys(f["$or"][1]) = {"title"}
           /\ Keys(f["$or"][2]) = {"description"}
           /\ Keys(f["$or"][3]) = {"tags"}

\* C10: every query composed has at most one predicate per field and at most
\* one free-text disjunction, and two calls of one endpoint with the same
\* criteria compose the same query, whatever was called in between.
C10_SameCriteriaSameQuery ==
    /\ \A i \in 1..Len(log) : OnePerField(log[i].filt)
    /\ \A i, j \in 1..Len(log) :
           (log[i].endpoint = log[j].endpoint /\ log[i].req = log[j].req)
               => log[i].filt = log[j].filt

\* The same search twice, with a stylist call composing another query in
\* between.
C10_Witness ==
    /\ Len(log) = 3
    /\ log[1].endpoint = "list_products" /\ log[3].endpoint = "list_products"
    /\ log[2].endpoint = "ai_stylist"
    /\ log[1].req = log[3].req
    /\ log[1].filt # << >> /\ log[2].filt # << >>
    /\ log[3].filt = log[1].filt

====
